---- MODULE Spec2Model ----
(***************************************************************************)
(* Model of packages/compiler/src/noir.rs: the generator gen_noir_fn /     *)
(* to_noir_fn that turns a DFA into Noir source, and the behaviour of the  *)
(* generated Noir functions next_state and regex_match.                    *)
(*                                                                         *)
(* The generated text is modelled by its structure: an ordered list of     *)
(* guarded rules (the body of next_state), the list of accepting ids (the  *)
(* final assertion) and the ordered list of if / else-if clauses of the    *)
(* loop body of regex_match.  Executing the artifact is interpreting those *)
(* lists with Noir's if / else-if semantics.                               *)
(***************************************************************************)
EXTENDS Integers, Sequences, FiniteSets, TLC

VARIABLES
    regex_and_dfa,      \* the RegexAndDFA handed to gen_noir_fn
    gen_substrs,        \* the gen_substrs flag handed to gen_noir_fn
    pc,                 \* position of the generator, then of the generated regex_match
    noir_fn,            \* the generated artifact (structure of the Noir text)
    file,               \* what is at `path`: "none", "created", "partial", "complete"
    input,              \* regex_match: the input buffer [u8; N]
    i,                  \* regex_match: number of loop iterations completed
    s,                  \* regex_match: s
    consecutive_substr, \* regex_match: consecutive_substr
    current_substring,  \* regex_match: current_substring (pushed bytes)
    substrings,         \* regex_match: substrings (committed buffers)
    hist,               \* history: one record per loop iteration: the state before (from)
                        \* and after (to) the step, the reset flag, whether a capture was open
    cur_src,            \* history: for each byte of current_substring, its position and group
    sub_src,            \* history: the same for each committed buffer
    discarded           \* history: input positions whose buffer was cleared

vars == <<regex_and_dfa, gen_substrs, pc, noir_fn, file, input, i, s,
          consecutive_substr, current_substring, substrings,
          hist, cur_src, sub_src, discarded>>

-----------------------------------------------------------------------------
(* Bounds of the model.                                                    *)

\* longest input buffer handed to regex_match (N)
MaxLen == 4

\* the generation-only specification draws byte sets from
\* {97, 98} and the top GenSpan + 1 byte values
GenSpan == 1

-----------------------------------------------------------------------------
(* Data model: RegexAndDFA (crate::structs), as far as noir.rs reads it.   *)

ACCEPT_STATE_ID == "accept"

Byte == 0..255

\* Option<T>: None is the empty sequence, Some(v) the one-element sequence
None == <<>>
Some(v) == <<v>>

\* a DFAStateNode; transitions maps a target state id to a set of bytes
Node(id, type, trans) == [state_id |-> id, state_type |-> type, transitions |-> trans]

\* ascending iteration order of a set of numbers (BTreeMap / BTreeSet / sort)
RECURSIVE SortedSeq(_)
SortedSeq(S) ==
    IF S = {} THEN <<>>
    ELSE LET m == CHOOSE x \in S : \A y \in S : x <= y
         IN  <<m>> \o SortedSeq(S \ {m})

StateIds(dfa) == {dfa.states[k].state_id : k \in 1..Len(dfa.states)}

MaxOf(S) == CHOOSE x \in S : \A y \in S : y <= x

-----------------------------------------------------------------------------
(* to_noir_fn, lines 35-48: the accept states of the DFA.                  *)

\* AcceptStates keeping the first accept state only (a find instead of a filter)
AcceptStates_FirstOnly(dfa) ==
    LET idx == SortedSeq({k \in 1..Len(dfa.states) :
                              dfa.states[k].state_type = ACCEPT_STATE_ID})
    IN  [k \in 1..(IF idx = <<>> THEN 0 ELSE 1) |-> dfa.states[idx[k]].state_id]

AcceptStates(dfa) ==
    LET idx == SortedSeq({k \in 1..Len(dfa.states) :
                              dfa.states[k].state_type = ACCEPT_STATE_ID})
    IN  [k \in 1..Len(idx) |-> dfa.states[idx[k]].state_id]

-----------------------------------------------------------------------------
(* to_noir_fn, lines 55-97: range compression into rows.                   *)

Row(st, lo, hi, nx) == [curr_state |-> st, char_start |-> lo, char_end |-> hi, next_state |-> nx]

\* ScanChar with the test `char_code == prev + 1` never taken: no range is extended
ScanChar_NoExtend(acc, char_code, state_id, next_id) ==
    IF acc.previous_char # None
    THEN [current_range_start |-> Some(char_code),
          previous_char |-> Some(char_code),
          rows |-> Append(acc.rows,
                          Row(state_id, acc.current_range_start[1],
                              acc.previous_char[1], next_id))]
    ELSE [acc EXCEPT !.current_range_start = Some(char_code),
                     !.previous_char = Some(char_code)]

\* one iteration of `for &char_code in sorted_chars`; acc holds
\* current_range_start, previous_char and the rows pushed so far
ScanChar(acc, char_code, state_id, next_id) ==
    IF acc.previous_char # None
    THEN LET prev == acc.previous_char[1]
         IN  IF char_code = prev + 1   \* prev < char_code <= 255: no u8 overflow
             THEN [acc EXCEPT !.previous_char = Some(char_code)]
             ELSE [current_range_start |-> Some(char_code),
                   previous_char |-> Some(char_code),
                   rows |-> Append(acc.rows,
                                   Row(state_id, acc.current_range_start[1], prev, next_id))]
    ELSE [acc EXCEPT !.current_range_start = Some(char_code),
                     !.previous_char = Some(char_code)]

RECURSIVE ScanChars(_, _, _, _, _)
ScanChars(acc, sorted_chars, k, state_id, next_id) ==
    IF k > Len(sorted_chars) THEN acc
    ELSE ScanChars(ScanChar(acc, sorted_chars[k], state_id, next_id),
                   sorted_chars, k + 1, state_id, next_id)

\* the rows pushed for one transition (state_id -> next_id on the bytes tran)
TransitionRows(state_id, next_id, tran) ==
    LET acc == ScanChars([current_range_start |-> None, previous_char |-> None, rows |-> <<>>],
                         SortedSeq(tran), 1, state_id, next_id)
    IN  IF acc.current_range_start # None
        THEN Append(acc.rows,
                    Row(state_id, acc.current_range_start[1], acc.previous_char[1], next_id))
        ELSE acc.rows

RECURSIVE StateRows(_, _, _)
StateRows(state, targets, k) ==
    IF k > Len(targets) THEN <<>>
    ELSE TransitionRows(state.state_id, targets[k], state.transitions[targets[k]])
         \o StateRows(state, targets, k + 1)

RECURSIVE RowsFrom(_, _)
RowsFrom(dfa, k) ==
    IF k > Len(dfa.states) THEN <<>>
    ELSE StateRows(dfa.states[k], SortedSeq(DOMAIN dfa.states[k].transitions), 1)
         \o RowsFrom(dfa, k + 1)

Rows(dfa) == RowsFrom(dfa, 1)

-----------------------------------------------------------------------------
(* to_noir_fn, lines 99-106: the transitions out of state 0.               *)

IsFirstTransition(row) == row.curr_state = 0 /\ row.char_start # 255

FirstTransitions(rows) == SelectSeq(rows, IsFirstTransition)

-----------------------------------------------------------------------------
(* to_noir_fn, lines 117-181: the rule chain of next_state.  A rule is one *)
(* `if` / `else if` branch: kw is its keyword, form its guard on input     *)
(* ("eq": input == lo, "range": lo <= input <= hi, "any": none), has_s     *)
(* whether it has the guard s == st, flip whether its body sets            *)
(* reset = false.                                                          *)

Rule(kw, has_s, st, form, lo, hi, nx, flip) ==
    [kw |-> kw, has_s |-> has_s, s |-> st, form |-> form, lo |-> lo, hi |-> hi,
     next |-> nx, flip |-> flip]

\* RowRule with the guard `s == curr_state_id` left out
RowRule_NoStateGuard(row, first_condition, gen) ==
    Rule(IF first_condition THEN "if" ELSE "else if", FALSE, row.curr_state,
         IF row.char_start = row.char_end THEN "eq" ELSE "range",
         row.char_start, row.char_end, row.next_state, gen)

\* lines 118-141
RowRule(row, first_condition, gen) ==
    Rule(IF first_condition THEN "if" ELSE "else if", TRUE, row.curr_state,
         IF row.char_start = row.char_end THEN "eq" ELSE "range",
         row.char_start, row.char_end, row.next_state, gen)

RowRules(rows, gen) == [k \in 1..Len(rows) |-> RowRule(rows[k], k = 1, gen)]

\* ExtraAcceptId without the `+ 1`
ExtraAcceptId_NoIncrement(dfa) == MaxOf(StateIds(dfa))

\* lines 149-156
ExtraAcceptId(dfa) == MaxOf(StateIds(dfa)) + 1

\* AcceptRules without the rule that keeps the extra accept state
AcceptRules_NoStay(dfa, has_end_anchor, accept_states, first_condition, gen) ==
    IF ~has_end_anchor
    THEN <<Rule(IF first_condition THEN "if" ELSE "else if", TRUE, accept_states[1],
                "any", 0, 255, ExtraAcceptId(dfa), gen)>>
    ELSE <<>>

\* lines 146-169; first_condition is still true iff no row was rendered
AcceptRules(dfa, has_end_anchor, accept_states, first_condition, gen) ==
    IF ~has_end_anchor
    THEN <<Rule(IF first_condition THEN "if" ELSE "else if", TRUE, accept_states[1],
                "any", 0, 255, ExtraAcceptId(dfa), gen),
           Rule("else if", TRUE, ExtraAcceptId(dfa), "any", 0, 255, ExtraAcceptId(dfa), gen)>>
    ELSE <<>>

\* RestartRule whose body also sets reset = false
RestartRule_FlipsReset(ft) ==
    Rule("else if", FALSE, 0,
         IF ft.char_start = ft.char_end THEN "eq" ELSE "range",
         ft.char_start, ft.char_end, ft.next_state, TRUE)

\* lines 173-181
RestartRule(ft) ==
    Rule("else if", FALSE, 0,
         IF ft.char_start = ft.char_end THEN "eq" ELSE "range",
         ft.char_start, ft.char_end, ft.next_state, FALSE)

RestartRules(first_transitions) ==
    [k \in 1..Len(first_transitions) |-> RestartRule(first_transitions[k])]

NextStateRules(rd, accept_states, gen) ==
    LET rows == Rows(rd.dfa)
    IN  RowRules(rows, gen)
        \o AcceptRules(rd.dfa, rd.has_end_anchor, accept_states, rows = <<>>, gen)
        \o RestartRules(FirstTransitions(rows))

\* lines 35, 157, 219-223: the ids tested by the final assertion
AcceptStateIds(rd, accept_states) ==
    IF ~rd.has_end_anchor THEN Append(accept_states, ExtraAcceptId(rd.dfa))
    ELSE accept_states

-----------------------------------------------------------------------------
(* to_noir_fn, lines 230-334: the loop body of regex_match in capture      *)
(* mode, as its ordered if / else-if clauses.  The template's own          *)
(* `if (stateInfo.reset & (consecutive_substr == 1))` comes first and the  *)
(* text of {conditions} follows it, separated by a comment only.           *)

Clause(kw, kind, grp, pairs) == [kw |-> kw, kind |-> kind, grp |-> grp, pairs |-> pairs]

\* lines 233-267: one clause per capture group
GroupClauses(substr_ranges) ==
    [k \in 1..Len(substr_ranges) |->
        Clause(IF k = 1 THEN "if" ELSE "else if", "group", k, substr_ranges[k])]

\* lines 273-284: {conditions} followed by the two closing else-if clauses
FinalConditions(substr_ranges) ==
    GroupClauses(substr_ranges)
    \o <<Clause("else if", "discard", 0, {}), Clause("else if", "commit", 0, {})>>

\* lines 314-320
LoopBody(substr_ranges) ==
    <<Clause("if", "reset_discard", 0, {})>> \o FinalConditions(substr_ranges)

\* the artifact before generation
NoFn == [gen_substrs |-> FALSE, rules |-> <<>>, accept_state_ids |-> <<>>, body |-> <<>>]

\* lines 31-362: the artifact to_noir_fn returns
ToNoirFnResult(rd, gen) ==
    LET accept_states == AcceptStates(rd.dfa)
    IN  [gen_substrs |-> gen,
         rules |-> NextStateRules(rd, accept_states, gen),
         accept_state_ids |-> AcceptStateIds(rd, accept_states),
         body |-> IF gen THEN LoopBody(rd.substrings.substring_ranges) ELSE <<>>]

-----------------------------------------------------------------------------
(* Semantics of the generated next_state (template lines 184-214).         *)

RuleFires(r, st, in) ==
    /\ r.has_s => st = r.s
    /\ CASE r.form = "eq" -> in = r.lo
         [] r.form = "range" -> in >= r.lo /\ in <= r.hi
         [] OTHER -> TRUE

\* runs the chain from rule k on; taken: a branch of the current
\* if / else-if chain has already run; v: the locals next and reset
RECURSIVE EvalRules(_, _, _, _, _, _)
EvalRules(rules, k, st, in, taken, v) ==
    IF k > Len(rules) THEN v
    ELSE LET r == rules[k]
             fire == (r.kw = "if" \/ ~taken) /\ RuleFires(r, st, in)
         IN  EvalRules(rules, k + 1, st, in,
                       IF r.kw = "if" THEN fire ELSE taken \/ fire,
                       IF fire
                       THEN [next |-> r.next, reset |-> IF r.flip THEN FALSE ELSE v.reset]
                       ELSE v)

\* next_state_info returning state 0 whenever it reports a reset
next_state_info_ResetToZero(fn, st, in) ==
    LET v == EvalRules(fn.rules, 1, st, in, FALSE, [next |-> 0, reset |-> TRUE])
    IN  [next_state |-> IF v.reset THEN 0 ELSE v.next, reset |-> v.reset]

\* capture mode: fn next_state(s, input) -> StateInfo
next_state_info(fn, st, in) ==
    LET v == EvalRules(fn.rules, 1, st, in, FALSE, [next |-> 0, reset |-> TRUE])
    IN  [next_state |-> v.next, reset |-> v.reset]

\* plain mode: fn next_state(s, input) -> Field
next_state_plain(fn, st, in) ==
    EvalRules(fn.rules, 1, st, in, FALSE, [next |-> 0, reset |-> TRUE]).next

\* the next state in either mode
NextOf(fn, st, in) ==
    IF fn.gen_substrs THEN next_state_info(fn, st, in).next_state
    ELSE next_state_plain(fn, st, in)

\* FinalStatesCondition testing the first accepting id only
FinalStatesCondition_FirstOnly(fn, st) == st = fn.accept_state_ids[1]

\* lines 219-223, 324, 347: the condition of the final assertion
FinalStatesCondition(fn, st) ==
    \E k \in 1..Len(fn.accept_state_ids) : st = fn.accept_state_ids[k]

-----------------------------------------------------------------------------
(* Semantics of the generated loop body (template lines 303-322).  m holds *)
(* the mutable locals consecutive_substr (cs), current_substring (cur),    *)
(* substrings (subs) and the history of where their bytes came from; e the *)
(* values fixed during the clause list: s, s_next, reset, temp, pos.       *)

\* ClauseGuard with the closing `else if (consecutive_substr == 1)` a plain else
ClauseGuard_CommitAlways(c, m, e) ==
    CASE c.kind = "reset_discard" -> e.reset /\ m.cs = 1
      [] c.kind = "group" -> \E pr \in c.pairs : e.s = pr[1] /\ e.s_next = pr[2]
      [] c.kind = "discard" -> m.cs = 1 /\ e.s_next = 0
      [] OTHER -> TRUE

\* ClauseGuard without the template's discard on reset
ClauseGuard_NoResetDiscard(c, m, e) ==
    CASE c.kind = "reset_discard" -> FALSE
      [] c.kind = "group" -> \E pr \in c.pairs : e.s = pr[1] /\ e.s_next = pr[2]
      [] c.kind = "discard" -> m.cs = 1 /\ e.s_next = 0
      [] OTHER -> m.cs = 1

\* ClauseGuard without the discard on a step back to state 0
ClauseGuard_NoZeroDiscard(c, m, e) ==
    CASE c.kind = "reset_discard" -> e.reset /\ m.cs = 1
      [] c.kind = "group" -> \E pr \in c.pairs : e.s = pr[1] /\ e.s_next = pr[2]
      [] c.kind = "discard" -> FALSE
      [] OTHER -> m.cs = 1

ClauseGuard(c, m, e) ==
    CASE c.kind = "reset_discard" -> e.reset /\ m.cs = 1
      [] c.kind = "group" -> \E pr \in c.pairs : e.s = pr[1] /\ e.s_next = pr[2]
      [] c.kind = "discard" -> m.cs = 1 /\ e.s_next = 0
      [] OTHER -> m.cs = 1

\* Cleared dropping the committed buffers together with the open one
Cleared_AlsoOutput(m) ==
    [m EXCEPT !.cur = <<>>, !.cs = 0, !.csrc = <<>>, !.subs = <<>>, !.ssrc = <<>>,
              !.disc = m.disc \cup {m.csrc[k].pos : k \in 1..Len(m.csrc)}]

Cleared(m) ==
    [m EXCEPT !.cur = <<>>, !.cs = 0, !.csrc = <<>>,
              !.disc = m.disc \cup {m.csrc[k].pos : k \in 1..Len(m.csrc)}]

Pushed(m, e, grp) ==
    [m EXCEPT !.cur = Append(m.cur, e.temp),
              !.csrc = Append(m.csrc, [pos |-> e.pos, grp |-> grp])]

\* ClauseEffect whose commit leaves current_substring as it is
ClauseEffect_CommitKeepsBuffer(c, m, e) ==
    CASE c.kind \in {"reset_discard", "discard"} -> Cleared(m)
      [] c.kind = "group" ->
            IF m.cs = 0 THEN [Pushed(m, e, c.grp) EXCEPT !.cs = 1]
            ELSE IF m.cs = 1 THEN Pushed(m, e, c.grp)
            ELSE m
      [] OTHER ->
            [m EXCEPT !.subs = Append(m.subs, m.cur), !.ssrc = Append(m.ssrc, m.csrc),
                      !.cs = 0]

ClauseEffect(c, m, e) ==
    CASE c.kind \in {"reset_discard", "discard"} -> Cleared(m)
      [] c.kind = "group" ->
            IF m.cs = 0 THEN [Pushed(m, e, c.grp) EXCEPT !.cs = 1]
            ELSE IF m.cs = 1 THEN Pushed(m, e, c.grp)
            ELSE m
      [] OTHER ->
            [m EXCEPT !.subs = Append(m.subs, m.cur), !.ssrc = Append(m.ssrc, m.csrc),
                      !.cur = <<>>, !.csrc = <<>>, !.cs = 0]

RECURSIVE RunBody(_, _, _, _, _)
RunBody(body, k, taken, m, e) ==
    IF k > Len(body) THEN m
    ELSE LET c == body[k]
             fire == (c.kw = "if" \/ ~taken) /\ ClauseGuard(c, m, e)
         IN  RunBody(body, k + 1,
                     IF c.kw = "if" THEN fire ELSE taken \/ fire,
                     IF fire THEN ClauseEffect(c, m, e) ELSE m, e)

-----------------------------------------------------------------------------
(* The inputs of gen_noir_fn.                                              *)

RegexAndDFA(states, has_end_anchor, substring_ranges) ==
    [dfa |-> [states |-> states],
     has_end_anchor |-> has_end_anchor,
     substrings |-> [substring_ranges |-> substring_ranges]]

NoTransitions == <<>>

\* DFAs handed to the generator whose artifact is then run, each with the
\* capture-group specifications tried with it (97 = a, 98 = b, 255 = start)
Programs ==
    { \* a+b, the a+ run captured
      [states |-> <<Node(0, "", 1 :> {97}),
                    Node(1, "", 1 :> {97} @@ 2 :> {98}),
                    Node(2, "accept", NoTransitions)>>,
       specs |-> {<<>>, <<{<<0, 1>>, <<1, 1>>}>>}],
      \* ^a
      [states |-> <<Node(0, "", 1 :> {255}),
                    Node(1, "", 2 :> {97}),
                    Node(2, "accept", NoTransitions)>>,
       specs |-> {<<>>, <<{<<1, 2>>}>>}],
      \* (ab)+
      [states |-> <<Node(0, "", 1 :> {97}),
                    Node(1, "", 2 :> {98}),
                    Node(2, "accept", 1 :> {97})>>,
       specs |-> {<<{<<0, 1>>, <<1, 2>>, <<2, 1>>}>>, <<{<<1, 2>>}>>}],
      \* (a+)(b+), both groups captured
      [states |-> <<Node(0, "", 1 :> {97}),
                    Node(1, "", 1 :> {97} @@ 2 :> {98}),
                    Node(2, "accept", 2 :> {98})>>,
       specs |-> {<<{<<0, 1>>, <<1, 1>>}, {<<1, 2>>, <<2, 2>>}>>}],
      \* a(b+), the b+ run captured
      [states |-> <<Node(0, "", 1 :> {97}),
                    Node(1, "", 2 :> {98}),
                    Node(2, "accept", 2 :> {98})>>,
       specs |-> {<<{<<1, 2>>, <<2, 2>>}>>}],
      \* (ab)*a?x with an edge back to state 0, the a captured
      [states |-> <<Node(0, "", 1 :> {97} @@ 2 :> {120}),
                    Node(1, "", 0 :> {98} @@ 2 :> {120}),
                    Node(2, "accept", NoTransitions)>>,
       specs |-> {<<{<<0, 1>>}>>}],
      \* ^[ab]x?[\xfe\xff], state 0 left on a run of bytes ending in 255
      [states |-> <<Node(0, "", 1 :> {255}),
                    Node(1, "", 2 :> {97, 98}),
                    Node(2, "", 2 :> {120} @@ 3 :> {254, 255}),
                    Node(3, "accept", NoTransitions)>>,
       specs |-> {<<{<<1, 2>>}>>}],
      \* malformed: no accept state
      [states |-> <<Node(0, "", 1 :> {97}),
                    Node(1, "", NoTransitions)>>,
       specs |-> {<<>>}],
      \* malformed: two accept states
      [states |-> <<Node(0, "", 1 :> {97}),
                    Node(1, "accept", 2 :> {98}),
                    Node(2, "accept", NoTransitions)>>,
       specs |-> {<<>>}] }

\* the bytes an input buffer is filled with
InputBytes == {97, 98, 120, 255}

RECURSIVE SeqsOfLen(_, _)
SeqsOfLen(S, n) ==
    IF n = 0 THEN {<<>>}
    ELSE {Append(q, b) : q \in SeqsOfLen(S, n - 1), b \in S}

Inputs == UNION {SeqsOfLen(InputBytes, n) : n \in 0..MaxLen}

\* DFAs of the generation-only specification: three states 0, 1, 2 whose
\* byte sets are drawn from GenBytes
GenBytes == {97, 98} \cup ((255 - GenSpan)..255)

GenPrograms ==
    { <<Node(0, "", 1 :> {b \in GenBytes : f[b] = 1} @@ 2 :> {b \in GenBytes : f[b] = 2}),
        Node(1, t1, 2 :> c1),
        Node(2, t2, tr2)>> :
        f \in [GenBytes -> {0, 1, 2}],
        t1 \in {"", "accept"}, t2 \in {"", "accept"},
        c1 \in {{}, {98}},
        tr2 \in {NoTransitions, 1 :> {97}} }

-----------------------------------------------------------------------------
(* State machine.                                                          *)

InitRest ==
    /\ pc = "to_noir_fn"
    /\ noir_fn = NoFn
    /\ file = "none"
    /\ input = <<>>
    /\ i = 0
    /\ s = 0
    /\ consecutive_substr = 0
    /\ current_substring = <<>>
    /\ substrings = <<>>
    /\ hist = <<>>
    /\ cur_src = <<>>
    /\ sub_src = <<>>
    /\ discarded = {}

\* gen_noir_fn is called with one of Programs
Init ==
    /\ gen_substrs \in BOOLEAN
    /\ \E p \in Programs, anchor \in BOOLEAN :
          \E sr \in (IF gen_substrs THEN p.specs ELSE {<<>>}) :
              regex_and_dfa = RegexAndDFA(p.states, anchor, sr)
    /\ InitRest

\* gen_noir_fn is called with one of GenPrograms
InitGen ==
    /\ gen_substrs \in BOOLEAN
    /\ \E st \in GenPrograms, anchor \in BOOLEAN :
          regex_and_dfa = RegexAndDFA(st, anchor, <<>>)
    /\ InitRest

\* line 14: to_noir_fn; the assert! of lines 43-46 panics
ToNoirFn ==
    /\ pc = "to_noir_fn"
    /\ IF Len(AcceptStates(regex_and_dfa.dfa)) = 1
       THEN /\ noir_fn' = ToNoirFnResult(regex_and_dfa, gen_substrs)
            /\ pc' = "File::create"
       ELSE /\ noir_fn' = noir_fn
            /\ pc' = "panicked"
    /\ UNCHANGED <<regex_and_dfa, gen_substrs, file, input, i, s, consecutive_substr,
                   current_substring, substrings, hist, cur_src, sub_src, discarded>>

\* line 15: File::create(path)?
FileCreate ==
    /\ pc = "File::create"
    /\ \E ok \in BOOLEAN :
          IF ok THEN file' = "created" /\ pc' = "write_all"
          ELSE file' = file /\ pc' = "Err"
    /\ UNCHANGED <<regex_and_dfa, gen_substrs, noir_fn, input, i, s, consecutive_substr,
                   current_substring, substrings, hist, cur_src, sub_src, discarded>>

\* line 16: file.write_all(..)?; a failed write may leave a part of the text
WriteAll ==
    /\ pc = "write_all"
    /\ \E ok \in BOOLEAN :
          IF ok THEN file' = "complete" /\ pc' = "flush"
          ELSE file' \in {"created", "partial"} /\ pc' = "Err"
    /\ UNCHANGED <<regex_and_dfa, gen_substrs, noir_fn, input, i, s, consecutive_substr,
                   current_substring, substrings, hist, cur_src, sub_src, discarded>>

\* lines 17-18: file.flush()?; Ok(())
Flush ==
    /\ pc = "flush"
    /\ \E ok \in BOOLEAN : pc' = IF ok THEN "Ok" ELSE "Err"
    /\ UNCHANGED <<regex_and_dfa, gen_substrs, noir_fn, file, input, i, s,
                   consecutive_substr, current_substring, substrings, hist, cur_src,
                   sub_src, discarded>>

\* the generated regex_match is called: template lines 292-301 / 340-341
RegexMatch ==
    /\ pc = "Ok"
    /\ input' \in Inputs
    /\ s' = NextOf(noir_fn, 0, 255)
    /\ i' = 0
    /\ consecutive_substr' = 0
    /\ current_substring' = <<>>
    /\ substrings' = <<>>
    /\ pc' = "loop"
    /\ UNCHANGED <<regex_and_dfa, gen_substrs, noir_fn, file, hist, cur_src, sub_src,
                   discarded>>

\* one iteration of `for i in 0..input.len()`: template lines 303-322 / 343-345
LoopStep ==
    /\ pc = "loop"
    /\ i < Len(input)
    /\ i' = i + 1
    /\ IF noir_fn.gen_substrs
       THEN LET stateInfo == next_state_info(noir_fn, s, input[i + 1])
                e == [s |-> IF stateInfo.reset THEN 0 ELSE s,
                      s_next |-> stateInfo.next_state,
                      reset |-> stateInfo.reset,
                      temp |-> input[i + 1],
                      pos |-> i + 1]
                m == RunBody(noir_fn.body, 1, FALSE,
                             [cs |-> consecutive_substr, cur |-> current_substring,
                              subs |-> substrings, csrc |-> cur_src, ssrc |-> sub_src,
                              disc |-> discarded], e)
            IN  /\ s' = e.s_next
                /\ consecutive_substr' = m.cs
                /\ current_substring' = m.cur
                /\ substrings' = m.subs
                /\ cur_src' = m.csrc
                /\ sub_src' = m.ssrc
                /\ discarded' = m.disc
                /\ hist' = Append(hist, [from |-> s, to |-> e.s_next, reset |-> e.reset,
                                          open |-> consecutive_substr = 1])
       ELSE /\ s' = next_state_plain(noir_fn, s, input[i + 1])
            /\ hist' = Append(hist, [from |-> s, to |-> s', reset |-> FALSE, open |-> FALSE])
            /\ UNCHANGED <<consecutive_substr, current_substring, substrings, cur_src,
                           sub_src, discarded>>
    /\ UNCHANGED <<regex_and_dfa, gen_substrs, pc, noir_fn, file, input>>

\* template lines 324-330 / 347: the final assertion and the return
AssertAndReturn ==
    /\ pc = "loop"
    /\ i = Len(input)
    /\ IF FinalStatesCondition(noir_fn, s)
       THEN /\ pc' = "returned"
            /\ IF noir_fn.gen_substrs /\ consecutive_substr = 1
               THEN /\ substrings' = Append(substrings, current_substring)
                    /\ sub_src' = Append(sub_src, cur_src)
               ELSE UNCHANGED <<substrings, sub_src>>
       ELSE /\ pc' = "fault"
            /\ UNCHANGED <<substrings, sub_src>>
    /\ UNCHANGED <<regex_and_dfa, gen_substrs, noir_fn, file, input, i, s,
                   consecutive_substr, current_substring, hist, cur_src, discarded>>

Next ==
    \/ ToNoirFn
    \/ FileCreate
    \/ WriteAll
    \/ Flush
    \/ RegexMatch
    \/ LoopStep
    \/ AssertAndReturn

Spec == Init /\ [][Next]_vars

\* generation only, over the wider family of DFAs
NextGen == ToNoirFn

SpecGen == InitGen /\ [][NextGen]_vars

-----------------------------------------------------------------------------
(* Vocabulary of the properties.                                           *)

Dfa == regex_and_dfa.dfa

Generated == pc \notin {"to_noir_fn", "panicked"}

\* the DFAStateNode with state id 0 (the set is empty when there is none)
NodesWithId(id) == {k \in 1..Len(Dfa.states) : Dfa.states[k].state_id = id}

\* the DFA's edge out of st on byte b leads to t
HasEdge(st, b, t) ==
    \E k \in NodesWithId(st) :
        t \in DOMAIN Dfa.states[k].transitions /\ b \in Dfa.states[k].transitions[t]

\* the original accept state A and the synthesized A'
OrigAccept == AcceptStates(Dfa)[1]
ExtraAccept == MaxOf(StateIds(Dfa)) + 1

\* the states the generated evaluator can be in
EvalStates == StateIds(Dfa) \cup {0} \cup {noir_fn.accept_state_ids[k] :
                                              k \in 1..Len(noir_fn.accept_state_ids)}

\* rules of the artifact by shape: rendered from a row, extra accept, restart
IsRowRule(r) == r.has_s /\ r.form # "any"
IsExtraRule(r) == r.has_s /\ r.form = "any"
IsRestartRule(r) == ~r.has_s

RuleInterval(r) == r.lo..r.hi

\* some state-qualified rule (row or extra accept) fires on (st, b)
StateRuleFires(st, b) ==
    \E k \in 1..Len(noir_fn.rules) : noir_fn.rules[k].has_s /\ RuleFires(noir_fn.rules[k], st, b)

-----------------------------------------------------------------------------
RowRulesOf(st, t) ==
    LET Is(r) == IsRowRule(r) /\ r.s = st /\ r.next = t
    IN  SelectSeq(noir_fn.rules, Is)

\* C2: for every state and outgoing transition, the emitted intervals are
\* closed, ascending, pairwise disjoint and never adjacent, and their union is
\* exactly the transition's byte set; an empty byte set yields no row.
C2_RangeCompression ==
    Generated =>
        \A k \in 1..Len(Dfa.states) :
            \A t \in DOMAIN Dfa.states[k].transitions :
                LET rs == RowRulesOf(Dfa.states[k].state_id, t)
                    chars == Dfa.states[k].transitions[t]
                IN  /\ \A j \in 1..Len(rs) : rs[j].lo <= rs[j].hi
                    /\ \A j \in 1..(Len(rs) - 1) : rs[j].hi + 1 < rs[j + 1].lo
                    /\ UNION {RuleInterval(rs[j]) : j \in 1..Len(rs)} = chars
                    /\ chars = {} => rs = <<>>
                    /\ \A j \in 1..Len(rs) : (rs[j].form = "eq") <=> (rs[j].lo = rs[j].hi)

\* a transition compressed into a range of several bytes and a further
\* interval, next to a transition with an empty byte set
C2_Witness ==
    /\ Generated
    /\ \E k \in 1..Len(Dfa.states) :
          \E t \in DOMAIN Dfa.states[k].transitions :
              LET rs == RowRulesOf(Dfa.states[k].state_id, t)
              IN  /\ Len(rs) >= 2
                  /\ \E j \in 1..Len(rs) : rs[j].lo < rs[j].hi
    /\ \E k \in 1..Len(Dfa.states) :
          \E t \in DOMAIN Dfa.states[k].transitions : Dfa.states[k].transitions[t] = {}

\* C3: without end anchor the final assertion tests exactly {A, A'}, A' is
\* max(state ids) + 1 and no state id of the DFA, and a step enters A' only
\* from A or A'; with end anchor it tests exactly {A} and no extra rule exists.
C3_AcceptConsolidation ==
    Generated =>
        IF ~regex_and_dfa.has_end_anchor
        THEN /\ noir_fn.accept_state_ids = <<OrigAccept, ExtraAccept>>
             /\ ExtraAccept \notin StateIds(Dfa)
             /\ \E k \in 1..Len(noir_fn.rules) : IsExtraRule(noir_fn.rules[k])
             /\ \A st \in EvalStates, b \in Byte :
                   NextOf(noir_fn, st, b) = ExtraAccept => st \in {OrigAccept, ExtraAccept}
        ELSE /\ noir_fn.accept_state_ids = <<OrigAccept>>
             /\ \A k \in 1..Len(noir_fn.rules) : ~IsExtraRule(noir_fn.rules[k])

\* no end anchor, the accept state is not the highest id and has an edge
C3_Witness ==
    /\ Generated
    /\ ~regex_and_dfa.has_end_anchor
    /\ OrigAccept < MaxOf(StateIds(Dfa))
    /\ \E b \in Byte : NextOf(noir_fn, OrigAccept, b) = ExtraAccept
    /\ \E b \in Byte : NextOf(noir_fn, OrigAccept, b) \notin {OrigAccept, ExtraAccept}

\* the target of state 0's edge on b, <<>> when it has none
ZeroTarget(b) == SortedSeq({t \in StateIds(Dfa) : HasEdge(0, b, t)})

\* C5: at a non-zero state s and byte b on which no state-qualified rule
\* fires, next_state(s, b) is the target of state 0's transition on b when b
\* is not the sentinel and state 0 has such a transition, and 0 otherwise;
\* no restart rule is generated when state 0 has no non-sentinel transition.
C5_RestartCompleteness ==
    Generated =>
        /\ \A st \in EvalStates \ {0}, b \in Byte :
              ~StateRuleFires(st, b) =>
                  NextOf(noir_fn, st, b) =
                      (IF b # 255 /\ ZeroTarget(b) # <<>> THEN ZeroTarget(b)[1] ELSE 0)
        /\ (\A b \in Byte \ {255} : ZeroTarget(b) = <<>>) =>
              \A k \in 1..Len(noir_fn.rules) : ~IsRestartRule(noir_fn.rules[k])

-----------------------------------------------------------------------------
(* Vocabulary of the properties about a run of regex_match.                *)

Running == pc \in {"loop", "returned", "fault"}

NoEndAnchor == ~regex_and_dfa.has_end_anchor

\* the state after the sentinel and after each of the first k input bytes
StateAfter(k) == IF k = 0 THEN (IF hist = <<>> THEN s ELSE hist[1].from) ELSE hist[k].to

\* C4: without end anchor, once the scan has reached the accept state A
\* after some prefix of the input, every later step stays inside {A, A'} and
\* the final assertion passes, whatever bytes follow.
C4_AcceptIsSticky ==
    (Running /\ NoEndAnchor) =>
        /\ \A j \in 0..Len(hist), k \in 0..Len(hist) :
              (j < k /\ StateAfter(j) = OrigAccept) =>
                  StateAfter(k) \in {OrigAccept, ExtraAccept}
        /\ pc = "fault" => \A j \in 0..Len(hist) : StateAfter(j) # OrigAccept

\* state 0's only outgoing edge is on the sentinel byte 255
StartAnchored ==
    /\ HasEdge(0, 255, ZeroTarget(255)[1])
    /\ \A b \in Byte \ {255} : ZeroTarget(b) = <<>>

\* C6: for a start-anchored DFA, once a step of the scanning loop has put
\* the evaluator back in state 0 no later input byte moves it out of state
\* 0, so an input is accepted only if the match begins at buffer position 0.
C6_StartAnchorRestricts ==
    (Running /\ ZeroTarget(255) # <<>> /\ StartAnchored) =>
        /\ \A j \in 1..Len(hist), k \in 1..Len(hist) :
              (j < k /\ hist[j].to = 0) => hist[k].to = 0
        /\ pc = "returned" => \A j \in 1..Len(hist) : hist[j].to # 0

-----------------------------------------------------------------------------
(* Vocabulary of the properties about captures.                            *)

Ranges == regex_and_dfa.substrings.substring_ranges

\* the pair the loop body tests at step p: on a reset s is forced to 0
Tested(p) == <<IF hist[p].reset THEN 0 ELSE hist[p].from, hist[p].to>>

\* the capture groups whose pair set the step p crossed
GroupsOf(p) == {g \in 1..Len(Ranges) : Tested(p) \in Ranges[g]}

\* input positions held in the committed buffers, in output order
RECURSIVE Flatten(_, _)
Flatten(bufs, k) ==
    IF k > Len(bufs) THEN <<>>
    ELSE [j \in 1..Len(bufs[k]) |-> bufs[k][j].pos] \o Flatten(bufs, k + 1)

OutPositions == Flatten(sub_src, 1)

OutPositionSet == {OutPositions[j] : j \in 1..Len(OutPositions)}

\* the committed buffers hold the input bytes of the positions recorded
BuffersMatchSources ==
    /\ Len(substrings) = Len(sub_src)
    /\ \A k \in 1..Len(substrings) :
          /\ Len(substrings[k]) = Len(sub_src[k])
          /\ \A j \in 1..Len(substrings[k]) : substrings[k][j] = input[sub_src[k][j].pos]

\* C7: on an accepted input the committed buffers hold exactly the positions
\* whose step crossed a pair of a capture group and was not discarded
\* afterwards, each buffer the positions of one group only, in input order,
\* and no discarded position is in the output.
C7_CaptureSoundness ==
    (pc = "returned" /\ noir_fn.gen_substrs) =>
        /\ BuffersMatchSources
        /\ OutPositionSet = {p \in 1..Len(hist) : GroupsOf(p) # {}} \ discarded
        /\ \A k \in 1..Len(sub_src) :
              sub_src[k] # <<>> =>
                  \E g \in 1..Len(Ranges) :
                      \A j \in 1..Len(sub_src[k]) : g \in GroupsOf(sub_src[k][j].pos)
        /\ \A j \in 1..(Len(OutPositions) - 1) : OutPositions[j] < OutPositions[j + 1]
        /\ OutPositionSet \cap discarded = {}

\* every else-if of the loop body continues an if, and every group clause
\* has a condition
WellFormedBody(body) ==
    /\ body # <<>>
    /\ body[1].kw = "if"
    /\ \A k \in 1..Len(body) : body[k].kind = "group" => body[k].pairs # {}

\* C8: in capture mode with an empty capture-group specification the artifact
\* is a well-formed capture loop and no capture is ever opened or committed:
\* the returned collection is empty for every input.
C8_EmptyGroupSpec ==
    (noir_fn.gen_substrs /\ Ranges = <<>>) =>
        /\ WellFormedBody(noir_fn.body)
        /\ consecutive_substr = 0
        /\ current_substring = <<>>
        /\ substrings = <<>>

\* an accepted run of the empty-spec capture artifact with a reset step and
\* a later step that is no reset and does not lead to state 0
C8_Witness ==
    /\ pc = "returned"
    /\ noir_fn.gen_substrs
    /\ Ranges = <<>>
    /\ \E j \in 1..Len(hist), k \in 1..Len(hist) :
          j < k /\ hist[j].reset /\ ~hist[k].reset /\ hist[k].to # 0

-----------------------------------------------------------------------------
\* the number of accept-typed states of the input DFA
AcceptTyped == Cardinality({k \in 1..Len(Dfa.states) : Dfa.states[k].state_type = "accept"})

-----------------------------------------------------------------------------
\* the maximal runs <<a, b, g>> of consecutive steps a..b crossing group g
Runs ==
    {r \in (1..Len(hist)) \X (1..Len(hist)) \X (1..Len(Ranges)) :
        /\ r[1] <= r[2]
        /\ \A p \in r[1]..r[2] : r[3] \in GroupsOf(p)
        /\ r[1] = 1 \/ r[3] \notin GroupsOf(r[1] - 1)
        /\ r[2] = Len(hist) \/ r[3] \notin GroupsOf(r[2] + 1)}

RunStarts == SortedSeq({r[1] : r \in Runs})

\* C10: on an accepted input whose scan has no reset step and no step into
\* state 0 while a capture is open, every maximal run of consecutive steps on
\* edges of a capture group gives exactly one committed buffer, the bytes of
\* the run, and the buffers are in input order.
C10_UninterruptedRun ==
    (/\ pc = "returned"
     /\ noir_fn.gen_substrs
     /\ \A p \in 1..Len(hist) : ~hist[p].reset /\ (hist[p].open => hist[p].to # 0)) =>
        /\ Len(substrings) = Cardinality(Runs)
        /\ Len(RunStarts) = Cardinality(Runs)
        /\ \A k \in 1..Len(substrings) :
              \E r \in Runs :
                  r[1] = RunStarts[k] /\ substrings[k] = SubSeq(input, r[1], r[2])

-----------------------------------------------------------------------------
\* C11: on a step with reset = true an open buffer is cleared and closed
\* before the membership test, which is evaluated on (0, s_next): after a
\* reset step a capture is open exactly when (0, s_next) is in a group's pair
\* set, and the open buffer then holds the current byte only.
C11_ResetPrecedence ==
    (pc = "loop" /\ noir_fn.gen_substrs /\ i >= 1 /\ hist[i].reset) =>
        /\ (consecutive_substr = 1) <=> (\E g \in 1..Len(Ranges) : <<0, s>> \in Ranges[g])
        /\ consecutive_substr = 1 =>
              current_substring = <<input[i]>> /\ Len(cur_src) = 1 /\ cur_src[1].pos = i
        /\ consecutive_substr # 1 => current_substring = <<>>
        /\ hist[i].open => (i - 1) \in discarded

\* a reset step taken with a capture open, from a state other than 0, that
\* opens a new capture
C11_Witness ==
    /\ pc = "loop"
    /\ noir_fn.gen_substrs
    /\ i >= 2
    /\ hist[i].reset
    /\ hist[i].open
    /\ hist[i].from # 0
    /\ consecutive_substr = 1

-----------------------------------------------------------------------------
\* the pair the membership test of the step pc = "loop" -> i' = i + 1 is
\* evaluated on, and whether no group's pair set holds it
StepTaken == pc = "loop" /\ i' = i + 1 /\ noir_fn.gen_substrs

StepInNoGroup ==
    \A g \in 1..Len(Ranges) : <<IF hist'[i'].reset THEN 0 ELSE s, s'>> \notin Ranges[g]

Committed ==
    /\ substrings' = Append(substrings, current_substring)
    /\ current_substring' = <<>>
    /\ consecutive_substr' = 0

Discarded ==
    /\ substrings' = substrings
    /\ current_substring' = <<>>
    /\ consecutive_substr' = 0

\* C12 (as claimed): on a step whose edge is in no group's pair set, an open
\* buffer is committed if s_next # 0 and cleared without being appended if
\* s_next = 0; with no capture open neither buffer nor output changes.
C12_CommitOrDiscard ==
    [][(StepTaken /\ StepInNoGroup) =>
          IF consecutive_substr = 1
          THEN IF s' # 0 THEN Committed ELSE Discarded
          ELSE UNCHANGED <<current_substring, substrings, consecutive_substr>>]_vars

\* C12 (amended): the same for a step that is no reset; on a reset step an
\* open buffer is cleared without being appended, whatever s_next is.
C12_CommitOrDiscardNoReset ==
    [][(StepTaken /\ StepInNoGroup) =>
          IF consecutive_substr = 1
          THEN IF s' # 0 /\ ~hist'[i'].reset THEN Committed ELSE Discarded
          ELSE UNCHANGED <<current_substring, substrings, consecutive_substr>>]_vars

\* a step that is no reset has just committed the open buffer, after an
\* earlier step back to state 0 discarded one
C12_Witness ==
    /\ pc = "loop"
    /\ noir_fn.gen_substrs
    /\ i >= 2
    /\ hist[i].open /\ ~hist[i].reset /\ hist[i].to # 0
    /\ GroupsOf(i) = {}
    /\ substrings # <<>>
    /\ \E p \in 1..(i - 1) :
          hist[p].open /\ ~hist[p].reset /\ hist[p].to = 0 /\ GroupsOf(p) = {}

-----------------------------------------------------------------------------
\* the accepting identities: A, and A' when there is no end anchor
Accepting(st) == st = OrigAccept \/ (NoEndAnchor /\ st = ExtraAccept)

\* C13: if a capture is still open after the last byte and the final state
\* is accepting, the open buffer is the last element of the returned
\* collection; if the final state is not accepting the assertion faults and
\* nothing is returned, the open buffer staying uncommitted.
C13_EndOfInputCommit ==
    /\ (pc = "returned" /\ noir_fn.gen_substrs) =>
          /\ Accepting(s)
          /\ consecutive_substr = 1 =>
                /\ substrings # <<>>
                /\ substrings[Len(substrings)] = current_substring
                /\ sub_src[Len(sub_src)] = cur_src
          /\ consecutive_substr # 1 =>
                \A k \in 1..Len(sub_src) : \A j \in 1..Len(sub_src[k]) :
                    sub_src[k][j].pos < Len(input)
    /\ (pc = "fault" /\ noir_fn.gen_substrs) =>
          /\ ~Accepting(s)
          /\ \A k \in 1..Len(cur_src) : cur_src[k].pos \notin OutPositionSet

\* a run returned with the capture still open at the end, committed after an
\* earlier buffer
C13_Witness ==
    /\ pc = "returned"
    /\ noir_fn.gen_substrs
    /\ consecutive_substr = 1
    /\ Len(substrings) >= 2

-----------------------------------------------------------------------------
\* the restart rules of the artifact that fire on byte b
RestartFiring(b) ==
    {k \in 1..Len(noir_fn.rules) :
        IsRestartRule(noir_fn.rules[k]) /\ RuleFires(noir_fn.rules[k], 0, b)}

\* C14 (as claimed): next_state returns reset = true exactly when no
\* state-qualified rule fired for (s, byte), and every step with reset = true
\* returns the initial state 0.
C14_ResetMeansZero ==
    (Generated /\ noir_fn.gen_substrs) =>
        \A st \in EvalStates, b \in Byte :
            /\ next_state_info(noir_fn, st, b).reset <=> ~StateRuleFires(st, b)
            /\ next_state_info(noir_fn, st, b).reset =>
                  next_state_info(noir_fn, st, b).next_state = 0

\* C14 (amended): next_state returns reset = true exactly when no
\* state-qualified rule fired for (s, byte); a step with reset = true returns
\* the target of the restart rule that fires on the byte, and the initial
\* state 0 when none does.
C14_ResetFlag ==
    (Generated /\ noir_fn.gen_substrs) =>
        \A st \in EvalStates, b \in Byte :
            /\ next_state_info(noir_fn, st, b).reset <=> ~StateRuleFires(st, b)
            /\ next_state_info(noir_fn, st, b).reset =>
                  IF RestartFiring(b) = {}
                  THEN next_state_info(noir_fn, st, b).next_state = 0
                  ELSE \E k \in RestartFiring(b) :
                          /\ next_state_info(noir_fn, st, b).next_state = noir_fn.rules[k].next
                          /\ \E c \in Byte : HasEdge(0, c, noir_fn.rules[k].next)

\* a reset step that a restart rule sends to a state other than 0
C14_Witness ==
    /\ Generated
    /\ noir_fn.gen_substrs
    /\ \E st \in EvalStates \ {0}, b \in Byte :
          /\ next_state_info(noir_fn, st, b).reset
          /\ next_state_info(noir_fn, st, b).next_state # 0

-----------------------------------------------------------------------------
\* C15: no restart rule fires on the sentinel byte 255, so next_state(s, 255)
\* is 0 at every state s without a state-qualified rule for byte 255, also
\* when state 0's byte set holds 255 together with smaller adjacent bytes.
C15_SentinelExcluded ==
    Generated =>
        /\ RestartFiring(255) = {}
        /\ \A st \in EvalStates : ~StateRuleFires(st, 255) => NextOf(noir_fn, st, 255) = 0

-----------------------------------------------------------------------------
-----------------------------------------------------------------------------
\* C17: at most one byte is pushed per step, and every committed buffer
\* holds only bytes pushed on edges of one single capture group.
C17_OneGroupPerBuffer ==
    (Running /\ noir_fn.gen_substrs) =>
        /\ \A k \in 1..Len(sub_src) : \A j1, j2 \in 1..Len(sub_src[k]) :
              /\ sub_src[k][j1].grp = sub_src[k][j2].grp
              /\ j1 < j2 => sub_src[k][j1].pos < sub_src[k][j2].pos
        /\ \A j1, j2 \in 1..Len(cur_src) : j1 < j2 => cur_src[j1].pos < cur_src[j2].pos

-----------------------------------------------------------------------------
\* the artifact generated from the same input with capture extraction
\* disabled, and the state its regex_match is in after the sentinel and k bytes
PlainFn == ToNoirFnResult(regex_and_dfa, FALSE)

RECURSIVE PlainStateAfter(_)
PlainStateAfter(k) ==
    IF k = 0 THEN next_state_plain(PlainFn, 0, 255)
    ELSE next_state_plain(PlainFn, PlainStateAfter(k - 1), input[k])

\* C18: for the same input the capture-mode run visits the states the
\* plain-mode run visits and its final assertion has the same outcome; the
\* state fed to next_state is the state the previous call returned.
C18_ModeEquivalence ==
    (Running /\ noir_fn.gen_substrs) =>
        /\ \A k \in 0..i : StateAfter(k) = PlainStateAfter(k)
        /\ \A k \in 1..i : hist[k].from = StateAfter(k - 1)
        /\ s = StateAfter(i)
        /\ pc = "returned" => FinalStatesCondition(PlainFn, PlainStateAfter(Len(input)))
        /\ pc = "fault" => ~FinalStatesCondition(PlainFn, PlainStateAfter(Len(input)))

\* a capture-mode run, returned, with a reset step that a restart rule sent
\* to a state other than 0 while a capture was open
C18_Witness ==
    /\ pc = "returned"
    /\ noir_fn.gen_substrs
    /\ \E p \in 1..Len(hist) : hist[p].reset /\ hist[p].to # 0 /\ hist[p].open /\ hist[p].from # 0

-----------------------------------------------------------------------------
\* C19: the output collection is append-only: no step removes or modifies a
\* committed buffer; a reset or a restart to state 0 clears the open buffer
\* only.
C19_AppendOnly ==
    [][/\ Len(substrings') >= Len(substrings)
       /\ SubSeq(substrings', 1, Len(substrings)) = substrings
       /\ SubSeq(sub_src', 1, Len(sub_src)) = sub_src
       /\ (StepTaken /\ hist'[i'].reset) =>
             substrings' = substrings /\ (consecutive_substr = 1 => cur_src' # cur_src)]_vars

\* the collection still holds a buffer committed before a later reset step
\* discarded an open buffer
C19_Witness ==
    /\ Running
    /\ noir_fn.gen_substrs
    /\ \E p \in 1..Len(hist) :
          /\ hist[p].reset /\ hist[p].open
          /\ \E k \in 1..Len(sub_src) :
                sub_src[k] # <<>> /\ \A j \in 1..Len(sub_src[k]) : sub_src[k][j].pos < p

-----------------------------------------------------------------------------
\* C20: at the end of every loop iteration consecutive_substr is 0 or 1,
\* current_substring is empty whenever consecutive_substr is 0, its length
\* does not exceed the number of bytes consumed, hence not N, and the number
\* of committed buffers does not exceed N.
C20_Bookkeeping ==
    (Running /\ noir_fn.gen_substrs) =>
        /\ consecutive_substr \in {0, 1}
        /\ consecutive_substr = 0 => current_substring = <<>>
        /\ Len(current_substring) <= i
        /\ i <= Len(input)
        /\ Len(substrings) <= Len(input)

\* the loop has committed a buffer and holds an open one of two bytes
C20_Witness ==
    /\ pc = "loop"
    /\ noir_fn.gen_substrs
    /\ consecutive_substr = 1
    /\ Len(current_substring) = 2
    /\ substrings # <<>>

====
